---- MODULE Spec2Model ----
(***************************************************************************)
(* Room / session manager of the chess server (socket.io handlers, the     *)
(* per-room clock and the 30 s reconnection deadline).                     *)
(*                                                                         *)
(* Every socket.io handler and every timer callback runs to completion on  *)
(* the single-threaded event loop, so each is one atomic action.  Time is  *)
(* counted in abstract ticks; a pending timer may fire once its due time   *)
(* is reached, and time does not advance past a due timer, while a message *)
(* that arrives at the very same instant may be handled before it.         *)
(***************************************************************************)
EXTENDS Integers, Sequences, FiniteSets, TLC

\* ---------------------------------------------------------------- bounds
MaxTime == 3
MaxMoves == 2
MaxTimers == 3

\* one tick of the model's time is 15 s: the grace period of 30_000 ms
ReconnectGrace == 2

RoomIds == {1}
\* the connections of a run: two seats and one more, which is an outsider or
\* a reconnection
SocketIds == {1, 2, 3}
Users == {1, 2}
TimerIds == 1..MaxTimers
\* timeControl: null (0) or the seconds per player, here two ticks
TimeControls == {0, 2}
\* what chess.js answers to game.move(): it throws, or plays the move and
\* then reports checkmate / stalemate / draw, or none of them
Outcomes == {"illegal", "ok", "checkmate", "stalemate", "draw"}

NoTimer == 0
NoUser == 0
Broadcast == 0

VARIABLES
    now,        \* Date.now()
    sockUser,   \* socket.data.user of the connected sockets (NoUser: guest)
    open,       \* the sockets that are currently connected
    nextSocket, \* the id of the next socket to connect
    rooms,      \* the Room objects, by room id
    table,      \* the keys of the rooms Map, in insertion order
    timers,     \* the pending setTimeout callbacks
    creating    \* the create-room call that is inside generateRoomId()

vars == <<now, sockUser, open, nextSocket, rooms, table, timers, creating>>

\* ---------------------------------------------------------------- helpers
\* a flip that stays on the same side
SameSide(c) == c

Other(c) == IF c = "w" THEN "b" ELSE "w"

Max(a, b) == IF a > b THEN a ELSE b

Range(s) == {s[i] : i \in 1..Len(s)}

Remove(s, x) == SelectSeq(s, LAMBDA y : y # x)

\* Array.prototype.findIndex: the first index that satisfies P, 0 for -1
FindIndex(s, P(_)) ==
    IF \E i \in 1..Len(s) : P(s[i])
    THEN CHOOSE i \in 1..Len(s) : P(s[i]) /\ \A j \in 1..(i - 1) : ~P(s[j])
    ELSE 0

\* no create-room call is under way
NotCreating == [socketId |-> 0, timeControl |-> 0, id |-> 0]

\* a Room object that was never created
NoRoom ==
    [status |-> "none", players |-> <<>>, turn |-> "w", history |-> <<>>,
     timeControl |-> 0, timeWhite |-> 0, timeBlack |-> 0,
     lastMoveTimestamp |-> 0, timerRef |-> NoTimer,
     reconnectTimers |-> [u \in Users |-> NoTimer],
     recorded |-> <<>>, endEvents |-> <<>>, drawOffer |-> "none"]

\* the server state the handlers work on
Cur == [rooms |-> rooms, table |-> table, timers |-> timers, out |-> <<>>]

\* socket.emit(ev, data) and io.to(to).emit(ev, data); data is the reason or
\* the payload where the event carries one that matters here
EmitWith(S, ev, to, data) ==
    [S EXCEPT !.out = Append(@, [ev |-> ev, to |-> to, data |-> data])]

Emit(S, ev, to) == EmitWith(S, ev, to, "")

\* rooms.get(roomId)
HasRoom(S, r) == r \in Range(S.table)

\* a status test that lets a finished room through
playingOrFinished(room) == room.status \in {"playing", "finished"}

\* room.status !== "playing" is the early return of every in-game handler
\* and of both timer callbacks
playing(room) == room.status = "playing"

\* setTimeout: the handle of the new timer
FreshTimer(S) == CHOOSE t \in TimerIds :
    /\ t \notin {x.id : x \in S.timers}
    /\ \A u \in TimerIds : u < t => u \in {x.id : x \in S.timers}

\* clearTimeout(handle)
ClearTimeout(S, h) == [S EXCEPT !.timers = {x \in @ : x.id # h}]

\* ---------------------------------------------------------------- clock
\* a deduction that charges nothing
deductNothing(room, color, t) == room

\* a deduction that charges the elapsed time to both sides
deductFromBoth(room, color, t) ==
    IF room.timeControl = 0 \/ room.lastMoveTimestamp = 0 THEN room
    ELSE LET elapsed == t - room.lastMoveTimestamp IN
         [room EXCEPT !.timeWhite = Max(0, room.timeWhite - elapsed),
                      !.timeBlack = Max(0, room.timeBlack - elapsed)]

\* deductElapsedTime(room, color) at Date.now() = t
deductElapsedTime(room, color, t) ==
    IF room.timeControl = 0 \/ room.lastMoveTimestamp = 0 THEN room
    ELSE LET elapsed == t - room.lastMoveTimestamp IN
         IF color = "w"
         THEN [room EXCEPT !.timeWhite = Max(0, room.timeWhite - elapsed)]
         ELSE [room EXCEPT !.timeBlack = Max(0, room.timeBlack - elapsed)]

\* clearClock that drops the handle and leaves the timer pending
clearClockKeepsTimer(S, r) == [S EXCEPT !.rooms[r].timerRef = NoTimer]

\* clearClock(room)
clearClock(S, r) ==
    IF S.rooms[r].timerRef # NoTimer
    THEN [ClearTimeout(S, S.rooms[r].timerRef) EXCEPT !.rooms[r].timerRef = NoTimer]
    ELSE S

\* startClock that arms a timer without cancelling the one armed before
startClockNoCancel(S, r, t) ==
    LET room == S.rooms[r] IN
    IF room.timeControl = 0 \/ ~playing(room) THEN S
    ELSE LET h == FreshTimer(S) IN
         [S EXCEPT !.rooms[r].lastMoveTimestamp = t,
                   !.rooms[r].timerRef = h,
                   !.timers = @ \cup {[id |-> h, kind |-> "clock", room |-> r,
                                       due |-> t + (IF room.turn = "w"
                                                    THEN room.timeWhite
                                                    ELSE room.timeBlack),
                                       who |-> room.turn]}]

\* startClock(room) at Date.now() = t.  A handle whose timer was cleared or
\* has fired behaves like null in every use the code makes of it, so such a
\* handle is written NoTimer.
startClock(S, r, t) ==
    LET room == S.rooms[r]
        S1 == clearClock(S, r)
    IN  IF room.timeControl = 0 \/ ~playing(room) THEN S1
        ELSE LET currentTurn == room.turn
                 remaining == IF currentTurn = "w" THEN room.timeWhite
                                                   ELSE room.timeBlack
                 h == FreshTimer(S1)
             IN  [S1 EXCEPT !.rooms[r].lastMoveTimestamp = t,
                            !.rooms[r].timerRef = h,
                            !.timers = @ \cup {[id |-> h, kind |-> "clock",
                                                room |-> r, due |-> t + remaining,
                                                who |-> currentTurn]}]

\* recordGame(room, result, reason): the call, with what it reads from the
\* room at the moment it is made (status, moveCount, whether a row is saved)
recordGame(S, r, result, reason) ==
    LET room == S.rooms[r] IN
    [S EXCEPT !.rooms[r].recorded = Append(@,
        [result |-> result, reason |-> reason, status |-> room.status,
         moveCount |-> Len(room.history),
         saved |-> \E i \in 1..Len(room.players) : room.players[i].userId # NoUser])]

\* a game-ending event goes out to the room
EmitEnd(S, r, ev) ==
    [Emit(S, ev, Broadcast) EXCEPT !.rooms[r].endEvents = Append(@, ev)]

\* pendingDrawOfferFrom of the data model: the side whose offer is waiting
\* for an answer.  The server keeps no such field; it is recorded here from
\* the messages the handlers accept.
noteDrawOffer(room, color) ==
    IF room.drawOffer = "none" THEN [room EXCEPT !.drawOffer = color] ELSE room

noteDrawAnswer(room, color) ==
    IF room.drawOffer = Other(color) THEN [room EXCEPT !.drawOffer = "none"] ELSE room

SeatOf(room, s) == FindIndex(room.players, LAMBDA p : p.socketId = s)

OtherSeatOf(room, s) == FindIndex(room.players, LAMBDA p : p.socketId # s)

\* the result credited to the loser's own side
WinnerNameSame(loser) == IF loser = "w" THEN "white" ELSE "black"

WinnerName(loser) == IF loser = "w" THEN "black" ELSE "white"

\* ---------------------------------------------------------------- handlers
\* io.on("connection"): reconnect detection for an authenticated socket
reconnectSeat(room, u) ==
    FindIndex(room.players, LAMBDA p : p.userId = u /\ ~p.connected)

\* the room a new socket of user u rejoins: the first one of the table that
\* is playing and has a disconnected seat of u, 0 if there is none
reconnectRoom(S, u) ==
    LET i == FindIndex(S.table, LAMBDA r :
                 reconnectSeat(S.rooms[r], u) # 0 /\ playing(S.rooms[r]))
    IN  IF u = NoUser \/ i = 0 THEN 0 ELSE S.table[i]

onConnection(S, s, u, t) ==
    LET r == reconnectRoom(S, u) IN
    IF r = 0 THEN S
    ELSE
        LET k == reconnectSeat(S.rooms[r], u)
            timer == S.rooms[r].reconnectTimers[u]
            S1 == IF timer # NoTimer
                  THEN [ClearTimeout(S, timer) EXCEPT
                            !.rooms[r].reconnectTimers[u] = NoTimer]
                  ELSE S
            S2 == [S1 EXCEPT !.rooms[r].players[k].socketId = s,
                             !.rooms[r].players[k].connected = TRUE]
            o == FindIndex(S2.rooms[r].players, LAMBDA p : p.userId # u)
            S3 == Emit(S2, "game-reconnect", s)
        IN  IF o # 0 /\ S3.rooms[r].players[o].connected
            THEN startClock(
                   Emit(S3, "opponent-reconnected", S3.rooms[r].players[o].socketId),
                   r, t)
            ELSE S3

\* generateRoomId(): any id the rooms Map does not hold
generateRoomId(S) == {r \in RoomIds : ~HasRoom(S, r)}

\* socket.on("create-room")
onCreateRoom(S, s, u, r, timeControl) ==
    LET initialMs == timeControl
        room == [NoRoom EXCEPT
                    !.players = <<[socketId |-> s, color |-> "w",
                                   connected |-> TRUE, userId |-> u]>>,
                    !.status = "waiting",
                    !.timeControl = timeControl,
                    !.timeWhite = initialMs,
                    !.timeBlack = initialMs]
    IN  Emit([S EXCEPT !.rooms[r] = room, !.table = Append(@, r)],
             "room-created", s)

\* a join test that lets a second opponent into a running game
joinableWhilePlaying(room) == room.status \in {"waiting", "playing"}

\* room.status !== "waiting": "Room is full or game already started."
joinable(room) == room.status = "waiting"

\* socket.on("join-room")
onJoinRoom(S, s, u, r, t) ==
    IF ~HasRoom(S, r) THEN Emit(S, "join-error", s)
    ELSE IF ~joinable(S.rooms[r]) THEN Emit(S, "join-error", s)
    ELSE
    LET S1 == [S EXCEPT !.rooms[r].players =
                            Append(@, [socketId |-> s, color |-> "b",
                                       connected |-> TRUE, userId |-> u]),
                        !.rooms[r].status = "playing"]
        S2 == Emit(Emit(S1, "game-start", S1.rooms[r].players[1].socketId),
                   "game-start", S1.rooms[r].players[2].socketId)
    IN  startClock(S2, r, t)

\* a turn test that lets either side move
notYourTurnNever(room, color) == FALSE

\* room.game.turn() !== player.color
notYourTurn(room, color) == room.turn # color

\* socket.on("make-move"); outcome is what chess.js makes of the move
onMakeMove(S, s, r, outcome, t) ==
    IF ~HasRoom(S, r) \/ ~playing(S.rooms[r])
    THEN EmitWith(S, "invalid-move", s, "Game is not active.")
    ELSE
    LET k == SeatOf(S.rooms[r], s) IN
    IF k = 0 THEN EmitWith(S, "invalid-move", s, "You are not in this room.")
    ELSE IF notYourTurn(S.rooms[r], S.rooms[r].players[k].color)
    THEN EmitWith(S, "invalid-move", s, "Not your turn.")
    ELSE
    LET color == S.rooms[r].players[k].color
        S1 == clearClock([S EXCEPT !.rooms[r] = deductElapsedTime(@, color, t)], r)
    IN  IF outcome = "illegal"
        THEN startClock(EmitWith(S1, "invalid-move", s, "Illegal move."), r, t)
        ELSE
        LET S2 == [S1 EXCEPT !.rooms[r].history = Append(@, color),
                             !.rooms[r].turn = Other(color)]
            isGameOver == outcome \in {"checkmate", "stalemate", "draw"}
            F == [S2 EXCEPT !.rooms[r].status = "finished"]
        IN  IF isGameOver
            THEN EmitEnd(recordGame(F, r,
                                    IF outcome = "checkmate"
                                    THEN WinnerName(F.rooms[r].turn) ELSE "draw",
                                    outcome),
                         r, "move-made")
            ELSE Emit(startClock(S2, r, t), "move-made", Broadcast)

\* relayToOther(eventName, roomId, payload) in the closure of socket s
relayToOther(S, s, r, eventName, payload) ==
    IF ~HasRoom(S, r) THEN S
    ELSE LET other == OtherSeatOf(S.rooms[r], s) IN
         IF other # 0
         THEN EmitWith(S, eventName, S.rooms[r].players[other].socketId, payload)
         ELSE S

\* a leave-room that deletes whatever room it names
onLeaveRoomAnyStatus(S, s, r) ==
    IF ~HasRoom(S, r) THEN S ELSE [S EXCEPT !.table = Remove(@, r)]

\* socket.on("leave-room")
onLeaveRoom(S, s, r) ==
    IF ~HasRoom(S, r) \/ S.rooms[r].status # "waiting" THEN S
    ELSE [S EXCEPT !.table = Remove(@, r)]

\* socket.on("resign")
onResign(S, s, r) ==
    IF ~HasRoom(S, r) \/ ~playing(S.rooms[r]) THEN S
    ELSE
    LET k == SeatOf(S.rooms[r], s) IN
    IF k = 0 THEN S
    ELSE
    LET color == S.rooms[r].players[k].color
        S1 == [clearClock(S, r) EXCEPT !.rooms[r].status = "finished"]
    IN  recordGame(EmitEnd(S1, r, "resigned"), r, WinnerName(color), "resign")

\* socket.on("draw-offer")
onDrawOffer(S, s, r) ==
    IF ~HasRoom(S, r) \/ ~playing(S.rooms[r]) THEN S
    ELSE
    LET k == SeatOf(S.rooms[r], s)
        o == OtherSeatOf(S.rooms[r], s)
    IN  IF k = 0 THEN S
        ELSE
        LET S1 == [S EXCEPT !.rooms[r] = noteDrawOffer(@, @.players[k].color)] IN
        IF o # 0 /\ S1.rooms[r].players[o].connected
        THEN Emit(S1, "draw-offered", S1.rooms[r].players[o].socketId)
        ELSE S1

\* socket.on("draw-response")
onDrawResponse(S, s, r, accept) ==
    IF ~HasRoom(S, r) \/ ~playing(S.rooms[r]) THEN S
    ELSE
    LET k == SeatOf(S.rooms[r], s)
        S0 == IF k = 0 THEN S
              ELSE [S EXCEPT !.rooms[r] = noteDrawAnswer(@, @.players[k].color)]
    IN  IF accept
        THEN LET S1 == [clearClock(S0, r) EXCEPT !.rooms[r].status = "finished"]
             IN  recordGame(EmitEnd(S1, r, "draw-accepted"), r, "draw", "agreement")
        ELSE LET o == OtherSeatOf(S0.rooms[r], s) IN
             IF o # 0 /\ S0.rooms[r].players[o].connected
             THEN Emit(S0, "draw-declined", S0.rooms[r].players[o].socketId)
             ELSE S0

\* the discard test without the status check
discardOnlyWhenAlone(room, s) ==
    {k \in 1..Len(room.players) : room.players[k].socketId # s} = {}

\* others.length === 0 || room.status !== "playing": nothing to preserve
discardOnDisconnect(room, s) ==
    \/ {k \in 1..Len(room.players) : room.players[k].socketId # s} = {}
    \/ ~playing(room)

\* a deadline with no grace period
graceDeadlineNow(t) == t

\* setTimeout(..., 30_000) at Date.now() = t
graceDeadline(t) == t + ReconnectGrace

\* the room the disconnect handler works on: the first one of the table
\* that seats the socket (the loop breaks after it), 0 if there is none
disconnectRoom(S, s) ==
    LET i == FindIndex(S.table, LAMBDA r : SeatOf(S.rooms[r], s) # 0) IN
    IF i = 0 THEN 0 ELSE S.table[i]

\* socket.on("disconnect")
onDisconnect(S, s, t) ==
    LET r == disconnectRoom(S, s) IN
    IF r = 0 THEN S
    ELSE
    LET idx == SeatOf(S.rooms[r], s)
        S1 == [clearClock(S, r) EXCEPT !.rooms[r].players[idx].connected = FALSE]
        disconnected == S1.rooms[r].players[idx]
    IN  IF discardOnDisconnect(S1.rooms[r], s)
        THEN [S1 EXCEPT !.table = Remove(@, r)]
        ELSE
        LET S2 == Emit(S1, "opponent-offline", Broadcast)
            h == FreshTimer(S2)
            S3 == [S2 EXCEPT !.timers = @ \cup
                       {[id |-> h, kind |-> "reconnect", room |-> r,
                         due |-> graceDeadline(t), who |-> disconnected.color]}]
        IN  IF disconnected.userId # NoUser
            THEN [S3 EXCEPT !.rooms[r].reconnectTimers[disconnected.userId] = h]
            ELSE S3

\* ---------------------------------------------------------------- timers
\* a timer leaves the pending set because it fires; handles to it are dead
Expire(S, tm) ==
    [S EXCEPT !.timers = @ \ {tm},
              !.rooms[tm.room].timerRef = IF @ = tm.id THEN NoTimer ELSE @,
              !.rooms[tm.room].reconnectTimers =
                  [u \in Users |-> IF @[u] = tm.id THEN NoTimer ELSE @[u]]]

\* the clock callback without its status check
clockTimeoutUnguarded(S, tm) ==
    LET r == tm.room
        S1 == [Expire(S, tm) EXCEPT
                  !.rooms[r].status = "finished",
                  !.rooms[r].timeWhite = IF tm.who = "w" THEN 0 ELSE @,
                  !.rooms[r].timeBlack = IF tm.who = "b" THEN 0 ELSE @]
    IN  recordGame(EmitEnd(S1, r, "timeout"), r, WinnerName(tm.who), "timeout")

\* the clock callback that leaves the loser's remaining time as it was
clockTimeoutKeepsTime(S, tm) ==
    LET r == tm.room
        S0 == Expire(S, tm)
    IN  IF ~playing(S0.rooms[r]) THEN S0
        ELSE recordGame(EmitEnd([S0 EXCEPT !.rooms[r].status = "finished"],
                                r, "timeout"),
                        r, WinnerName(tm.who), "timeout")

\* the callback startClock hands to setTimeout
clockTimeout(S, tm) ==
    LET r == tm.room
        currentTurn == tm.who
        S0 == Expire(S, tm)
    IN  IF ~playing(S0.rooms[r]) THEN S0
        ELSE
        LET S1 == [S0 EXCEPT !.rooms[r].status = "finished",
                             !.rooms[r].timeWhite = IF currentTurn = "w" THEN 0 ELSE @,
                             !.rooms[r].timeBlack = IF currentTurn = "b" THEN 0 ELSE @]
        IN  recordGame(EmitEnd(S1, r, "timeout"), r, WinnerName(currentTurn), "timeout")

\* the callback the disconnect handler hands to setTimeout
reconnectTimeout(S, tm) ==
    LET r == tm.room
        S0 == Expire(S, tm)
    IN  IF ~playing(S0.rooms[r]) THEN S0
        ELSE
        LET S1 == [S0 EXCEPT !.rooms[r].status = "finished"]
            S2 == recordGame(EmitEnd(S1, r, "player-disconnected"), r,
                             WinnerName(tm.who), "abandoned")
        IN  [S2 EXCEPT !.table = Remove(@, r)]

Init ==
    /\ now = 1
    /\ sockUser = [s \in SocketIds |-> NoUser]
    /\ open = {}
    /\ nextSocket = 1
    /\ rooms = [r \in RoomIds |-> NoRoom]
    /\ table = <<>>
    /\ timers = {}
    /\ creating = NotCreating

\* ---------------------------------------------------------------- actions
Commit(S) ==
    /\ rooms' = S.rooms
    /\ table' = S.table
    /\ timers' = S.timers

\* once every room id has been given out and neither a room nor a timer is
\* left, no handler reaches a Room object any more: nothing is explored
\* beyond that point
Live ==
    \/ table # <<>>
    \/ timers # {}
    \/ \E r \in RoomIds : rooms[r].status = "none"

\* setTimeout needs a handle of the pool
TimerAvailable == Cardinality(timers) < MaxTimers

\* the sockets seated in a room of the table
Seated == UNION {{p.socketId : p \in Range(rooms[r].players)} : r \in Range(table)}

\* connected sockets that are seated nowhere
Idle == open \ Seated

\* users are told apart by equality only: the next user to appear is either
\* one seen before or the smallest one not seen yet
KnownUsers ==
    ({sockUser[s] : s \in open} \cup
     UNION {{p.userId : p \in Range(rooms[r].players)} : r \in Range(table)})
    \ {NoUser}

\* socket.id is unique: the ids are given out in order, each once.  A
\* connection that reconnects nobody changes nothing on the server until its
\* first message, so one is made only when no idle socket is at hand.
FreshSocket == nextSocket

Connect(u) ==
    /\ Live
    /\ TimerAvailable
    /\ nextSocket \in SocketIds
    /\ u = NoUser \/ u \in KnownUsers
         \/ (u \in Users /\ \A v \in Users : v < u => v \in KnownUsers)
    /\ LET s == FreshSocket
           S == onConnection(Cur, s, u, now)
       IN  /\ S.rooms # rooms \/ Idle = {}
           /\ sockUser' = [sockUser EXCEPT ![s] = u]
           /\ open' = open \cup {s}
           /\ nextSocket' = nextSocket + 1
           /\ Commit(S)
    /\ UNCHANGED <<now, creating>>

\* every room id is given out once
CreateRoom(s, r, tc) ==
    /\ s \in open
    /\ r \in generateRoomId(Cur)
    /\ rooms[r].status = "none"
    /\ Commit(onCreateRoom(Cur, s, sockUser[s], r, tc))
    /\ UNCHANGED <<now, sockUser, open, nextSocket, creating>>

JoinRoom(s, r) ==
    /\ s \in open
    /\ TimerAvailable
    /\ Commit(onJoinRoom(Cur, s, sockUser[s], r, now))
    /\ UNCHANGED <<now, sockUser, open, nextSocket, creating>>

MakeMove(s, r, outcome) ==
    /\ s \in open
    /\ TimerAvailable
    /\ outcome # "illegal" => Len(rooms[r].history) < MaxMoves
    /\ Commit(onMakeMove(Cur, s, r, outcome, now))
    /\ UNCHANGED <<now, sockUser, open, nextSocket, creating>>

LeaveRoom(s, r) ==
    /\ s \in open
    /\ Commit(onLeaveRoom(Cur, s, r))
    /\ UNCHANGED <<now, sockUser, open, nextSocket, creating>>

Resign(s, r) ==
    /\ s \in open
    /\ Commit(onResign(Cur, s, r))
    /\ UNCHANGED <<now, sockUser, open, nextSocket, creating>>

DrawOffer(s, r) ==
    /\ s \in open
    /\ Commit(onDrawOffer(Cur, s, r))
    /\ UNCHANGED <<now, sockUser, open, nextSocket, creating>>

DrawResponse(s, r, accept) ==
    /\ s \in open
    /\ Commit(onDrawResponse(Cur, s, r, accept))
    /\ UNCHANGED <<now, sockUser, open, nextSocket, creating>>

Disconnect(s) ==
    /\ Live
    /\ s \in open
    /\ TimerAvailable
    /\ open' = open \ {s}
    /\ sockUser' = [sockUser EXCEPT ![s] = NoUser]
    /\ Commit(onDisconnect(Cur, s, now))
    /\ UNCHANGED <<now, nextSocket, creating>>

ClockFire(tm) ==
    /\ tm \in timers
    /\ tm.kind = "clock"
    /\ tm.due <= now
    /\ Commit(clockTimeout(Cur, tm))
    /\ UNCHANGED <<now, sockUser, open, nextSocket, creating>>

ReconnectFire(tm) ==
    /\ tm \in timers
    /\ tm.kind = "reconnect"
    /\ tm.due <= now
    /\ Commit(reconnectTimeout(Cur, tm))
    /\ UNCHANGED <<now, sockUser, open, nextSocket, creating>>

\* time passes, but not past a timer that is due
Tick ==
    /\ Live
    /\ now < MaxTime
    /\ \A x \in timers : x.due > now
    /\ now' = now + 1
    /\ UNCHANGED <<sockUser, open, nextSocket, rooms, table, timers, creating>>

Next ==
    \/ \E u \in Users \cup {NoUser} : Connect(u)
    \/ \E s \in SocketIds, r \in RoomIds, tc \in TimeControls : CreateRoom(s, r, tc)
    \/ \E s \in SocketIds, r \in RoomIds : JoinRoom(s, r)
    \/ \E s \in SocketIds, r \in RoomIds, o \in Outcomes : MakeMove(s, r, o)
    \/ \E s \in SocketIds, r \in RoomIds : LeaveRoom(s, r)
    \/ \E s \in SocketIds, r \in RoomIds : Resign(s, r)
    \/ \E s \in SocketIds, r \in RoomIds : DrawOffer(s, r)
    \/ \E s \in SocketIds, r \in RoomIds, a \in BOOLEAN : DrawResponse(s, r, a)
    \/ \E s \in SocketIds : Disconnect(s)
    \/ \E tm \in timers : ClockFire(tm)
    \/ \E tm \in timers : ReconnectFire(tm)
    \/ Tick

Spec == Init /\ [][Next]_vars

\* ------------------------------------------------------- room id allocation
\* create-room with the loop of generateRoomId() spelled out.  The handler
\* runs on the event loop, so nothing else is handled while it is inside
\* the loop.  The ids are the 3-hex-digit codes; three of them stand for the
\* 4096.
IdSpace == {1, 2, 3}

InitAlloc ==
    /\ now = 1
    /\ sockUser = [s \in SocketIds |-> NoUser]
    /\ open = {}
    /\ nextSocket = 1
    /\ rooms = [r \in IdSpace |-> NoRoom]
    /\ table = <<>>
    /\ timers = {}
    /\ creating = NotCreating

AllocConnect ==
    /\ creating = NotCreating
    /\ nextSocket \in SocketIds
    /\ open' = open \cup {nextSocket}
    /\ nextSocket' = nextSocket + 1
    /\ UNCHANGED <<now, sockUser, rooms, table, timers, creating>>

\* socket.on("create-room") is entered: generateRoomId() is called
BeginCreateRoom(s, timeControl) ==
    /\ creating = NotCreating
    /\ s \in open
    /\ creating' = [socketId |-> s, timeControl |-> timeControl, id |-> 0]
    /\ UNCHANGED <<now, sockUser, open, nextSocket, rooms, table, timers>>

\* one turn of the do-while: the id drawn is in the rooms Map, draw again
GenerateIdTaken(id) ==
    /\ creating # NotCreating
    /\ HasRoom(Cur, id)
    /\ creating' = [creating EXCEPT !.id = id]
    /\ UNCHANGED <<now, sockUser, open, nextSocket, rooms, table, timers>>

\* the id drawn is not in the rooms Map: the loop ends and the handler
\* builds the room
GenerateIdFree(id) ==
    /\ creating # NotCreating
    /\ ~HasRoom(Cur, id)
    /\ Commit(onCreateRoom(Cur, creating.socketId, sockUser[creating.socketId],
                            id, creating.timeControl))
    /\ creating' = NotCreating
    /\ UNCHANGED <<now, sockUser, open, nextSocket>>

AllocLeave(s, r) ==
    /\ creating = NotCreating
    /\ HasRoom(Cur, r)
    /\ LeaveRoom(s, r)

NextAlloc ==
    \/ AllocConnect
    \/ \E s \in SocketIds, tc \in TimeControls : BeginCreateRoom(s, tc)
    \/ \E id \in IdSpace : GenerateIdTaken(id)
    \/ \E id \in IdSpace : GenerateIdFree(id)
    \/ \E s \in SocketIds, r \in IdSpace : AllocLeave(s, r)

\* the loop keeps turning, and a random draw that is repeated for ever hits
\* an unused id if there is one
FairAlloc ==
    /\ WF_vars(\E id \in IdSpace : GenerateIdTaken(id))
    /\ SF_vars(\E id \in IdSpace : GenerateIdFree(id))

SpecAlloc == InitAlloc /\ [][NextAlloc]_vars /\ FairAlloc

\* ---------------------------------------------------------------- sanity
TypeOK ==
    /\ now \in 1..MaxTime
    /\ open \subseteq SocketIds
    /\ Range(table) \subseteq RoomIds
    /\ Cardinality(timers) <= MaxTimers
    /\ \A x \in timers : x.id \in TimerIds /\ x.room \in RoomIds
    /\ \A r \in RoomIds :
          /\ rooms[r].status \in {"none", "waiting", "playing", "finished"}
          /\ rooms[r].timerRef # NoTimer =>
                \E x \in timers : x.id = rooms[r].timerRef

\* ---------------------------------------------------------------- claims
ClockTimersOf(T, r) == {x \in T : x.kind = "clock" /\ x.room = r}

DeadlinesOf(T, r) == {x \in T : x.kind = "reconnect" /\ x.room = r}

ColorOf(room, s) == room.players[SeatOf(room, s)].color

SeatOfColor(room, c) == FindIndex(room.players, LAMBDA p : p.color = c)

\* a seated socket whose disconnect is handled for a playing room r
DropsFromPlaying(s, r) ==
    /\ s \in open
    /\ TimerAvailable
    /\ r = disconnectRoom(Cur, s)
    /\ playing(rooms[r])

\* C1: once a room is finished, no step (message, timer callback, connect,
\* disconnect) changes its status, the result and reason recorded for it,
\* the game-ending events sent for it, or its move log.
C1_FinishedIsFinal ==
    [][\A r \in RoomIds : rooms[r].status = "finished" =>
          /\ rooms'[r].status = "finished"
          /\ rooms'[r].recorded = rooms[r].recorded
          /\ rooms'[r].endEvents = rooms[r].endEvents
          /\ rooms'[r].history = rooms[r].history]_vars

\* a room that finished by resignation and was later dropped from the table
\* by the disconnect of one of its players
C1_Witness ==
    \E r \in RoomIds :
        /\ rooms[r].status = "finished"
        /\ rooms[r].recorded[1].reason = "resign"
        /\ ~HasRoom(Cur, r)
        /\ \E k \in 1..Len(rooms[r].players) : ~rooms[r].players[k].connected

\* C2: the Playing-to-Finished transition happens once per room: a finished
\* room has exactly one recordGame call and exactly one game-ending event, a
\* room that is not finished has none, and every recordGame call was made
\* with the status already "finished".
C2_FinishedExactlyOnce ==
    \A r \in RoomIds :
        /\ Len(rooms[r].recorded) = (IF rooms[r].status = "finished" THEN 1 ELSE 0)
        /\ Len(rooms[r].endEvents) = Len(rooms[r].recorded)
        /\ \A i \in 1..Len(rooms[r].recorded) :
              rooms[r].recorded[i].status = "finished"

\* a room finished by one of the two timer callbacks while the other kind of
\* timer of the room is due and still to fire
C2_Witness ==
    \E r \in RoomIds :
        /\ rooms[r].status = "finished"
        /\ Len(rooms[r].recorded) = 1
        /\ \/ /\ rooms[r].recorded[1].reason = "abandoned"
              /\ \E x \in ClockTimersOf(timers, r) : x.due <= now
           \/ /\ rooms[r].recorded[1].reason = "timeout"
              /\ \E x \in DeadlinesOf(timers, r) : x.due <= now

\* C3: a move by the side to move whose deduct-on-move step leaves the
\* mover's time at 0 is not played (the move log is unchanged) and the room
\* finishes as a timeout lost by the mover.
C3_ExhaustedMoveIsTimeout ==
    \A r \in RoomIds, s \in open, o \in Outcomes :
        LET room == rooms[r]
            k == SeatOf(room, s)
        IN  (/\ HasRoom(Cur, r) /\ playing(room) /\ room.timeControl # 0
             /\ TimerAvailable
             /\ k # 0 /\ room.turn = room.players[k].color
             /\ (o # "illegal" => Len(room.history) < MaxMoves)
             /\ LET d == deductElapsedTime(room, room.turn, now)
                IN  (IF room.turn = "w" THEN d.timeWhite ELSE d.timeBlack) = 0)
            => LET after == onMakeMove(Cur, s, r, o, now).rooms[r]
               IN  /\ after.history = room.history
                   /\ after.status = "finished"
                   /\ Len(after.recorded) = 1
                   /\ after.recorded[1].reason = "timeout"
                   /\ after.recorded[1].result = (IF room.turn = "w" THEN "black" ELSE "white")

IsDeadlineFor(x, r, c) == x.kind = "reconnect" /\ x.room = r /\ x.who = c

C6_ReconnectCancelsDeadline ==
    \A r \in RoomIds, u \in Users :
        (/\ nextSocket \in SocketIds /\ TimerAvailable
         /\ r = reconnectRoom(Cur, u))
        => LET k == reconnectSeat(rooms[r], u)
               S == onConnection(Cur, nextSocket, u, now)
           IN  /\ S.rooms[r].players[k].socketId = nextSocket
               /\ S.rooms[r].players[k].connected
               /\ S.rooms[r].status = "playing"
               /\ ~\E x \in S.timers : IsDeadlineFor(x, r, rooms[r].players[k].color)

\* C6 for rooms whose two seats belong to different users (or to a guest)
C6_DistinctIdentities ==
    \A r \in RoomIds, u \in Users :
        (/\ nextSocket \in SocketIds /\ TimerAvailable
         /\ r = reconnectRoom(Cur, u)
         /\ Cardinality({k \in 1..Len(rooms[r].players) :
                            rooms[r].players[k].userId = u}) = 1)
        => LET k == reconnectSeat(rooms[r], u)
               S == onConnection(Cur, nextSocket, u, now)
           IN  /\ S.rooms[r].players[k].socketId = nextSocket
               /\ S.rooms[r].players[k].connected
               /\ S.rooms[r].status = "playing"
               /\ ~\E x \in S.timers : IsDeadlineFor(x, r, rooms[r].players[k].color)

\* C7: when the deadline of an identified player fires while that player is
\* still disconnected and the room still playing, the room becomes finished
\* as abandoned, the other side is credited whatever the clocks say, and the
\* result is emitted once and recorded once (and saved).
C7_DeadlineAbandons ==
    \A tm \in timers :
        LET r == tm.room
            k == SeatOfColor(rooms[r], tm.who)
        IN  (/\ tm.kind = "reconnect" /\ tm.due <= now
             /\ playing(rooms[r])
             /\ ~rooms[r].players[k].connected
             /\ rooms[r].players[k].userId # NoUser)
            => LET S == reconnectTimeout(Cur, tm)
                   F == S.rooms[r]
               IN  /\ F.status = "finished"
                   /\ Len(F.recorded) = 1
                   /\ F.recorded[1].reason = "abandoned"
                   /\ F.recorded[1].result = (IF tm.who = "w" THEN "black" ELSE "white")
                   /\ F.recorded[1].saved
                   /\ F.endEvents = <<"player-disconnected">>
                   /\ tm \notin S.timers

\* a room finished as abandoned at the expiry of the grace period of an
\* identified player who never came back, with time left on both clocks
C7_Witness ==
    \E r \in RoomIds, k \in {1, 2} :
        /\ rooms[r].status = "finished"
        /\ Len(rooms[r].recorded) = 1
        /\ rooms[r].recorded[1].reason = "abandoned"
        /\ rooms[r].recorded[1].result = WinnerName(rooms[r].players[k].color)
        /\ rooms[r].players[k].userId # NoUser
        /\ ~rooms[r].players[k].connected
        /\ rooms[r].timeControl # 0
        /\ rooms[r].timeWhite > 0 /\ rooms[r].timeBlack > 0

C9_ResponseWithoutOfferIsNoop ==
    \A r \in RoomIds, s \in open, accept \in BOOLEAN :
        (HasRoom(Cur, r) /\ playing(rooms[r]) /\ rooms[r].drawOffer = "none")
        => LET S == onDrawResponse(Cur, s, r, accept)
           IN  /\ S.rooms[r] = rooms[r]
               /\ S.timers = timers
               /\ S.table = table

\* C10: an accept finishes a playing room only when it comes from the seated
\* opponent of the side whose draw offer is pending.
C10_OnlyTargetAccepts ==
    \A r \in RoomIds, s \in open :
        (/\ HasRoom(Cur, r) /\ playing(rooms[r])
         /\ onDrawResponse(Cur, s, r, TRUE).rooms[r].status = "finished")
        => /\ SeatOf(rooms[r], s) # 0
           /\ rooms[r].drawOffer # "none"
           /\ ColorOf(rooms[r], s) = Other(rooms[r].drawOffer)

\* the events of a handler's output with the given name
EventsNamed(S, ev) == {i \in 1..Len(S.out) : S.out[i].ev = ev}

\* C11: while a draw offer is pending, a further draw offer from a seated
\* player of either side leaves the pending offer as it is and sends no
\* draw-offered notification.
C11_SecondOfferIgnored ==
    \A r \in RoomIds, s \in open :
        (/\ HasRoom(Cur, r) /\ playing(rooms[r])
         /\ SeatOf(rooms[r], s) # 0
         /\ rooms[r].drawOffer # "none")
        => LET S == onDrawOffer(Cur, s, r)
           IN  /\ S.rooms[r].drawOffer = rooms[r].drawOffer
               /\ EventsNamed(S, "draw-offered") = {}

\* C12: a resign from a seated player of a playing room finishes the room at
\* once, whoever is to move and whatever the clock and the draw offer are:
\* no clock timer of the room stays armed, the opposite side is credited, the
\* result is emitted once and recorded once; a resign from a connection that
\* is not seated, or for a room that is not playing, changes nothing.
C12_ResignFinishes ==
    \A r \in RoomIds, s \in open :
        LET S == onResign(Cur, s, r) IN
        IF HasRoom(Cur, r) /\ playing(rooms[r]) /\ SeatOf(rooms[r], s) # 0
        THEN /\ S.rooms[r].status = "finished"
             /\ S.rooms[r].timerRef = NoTimer
             /\ ClockTimersOf(S.timers, r) = {}
             /\ Len(S.rooms[r].recorded) = 1
             /\ S.rooms[r].recorded[1].reason = "resign"
             /\ S.rooms[r].recorded[1].status = "finished"
             /\ S.rooms[r].recorded[1].result =
                    (IF ColorOf(rooms[r], s) = "w" THEN "black" ELSE "white")
             /\ S.rooms[r].endEvents = <<"resigned">>
             /\ S.rooms[r].history = rooms[r].history
        ELSE S = Cur

\* a timed room that white has resigned on black's turn, one move played and
\* a draw offer pending: black is credited and no clock timer is left
C12_Witness ==
    \E r \in RoomIds :
        /\ rooms[r].status = "finished"
        /\ rooms[r].timeControl # 0
        /\ rooms[r].recorded[1].reason = "resign"
        /\ rooms[r].recorded[1].result = "black"
        /\ rooms[r].turn = "b"
        /\ Len(rooms[r].history) = 1
        /\ rooms[r].drawOffer # "none"
        /\ ClockTimersOf(timers, r) = {}

\* the side to move is not the side of socket s, which is seated in the room
OutOfTurn(room, s) == SeatOf(room, s) # 0 /\ room.turn # ColorOf(room, s)

\* C13: a move for a room that is not playing, or from a connection that is
\* not seated in the room, or from the seated player who is not to move, is
\* answered with one invalid-move to the sender that carries the matching
\* reason, and changes neither the room (position, move log, both times,
\* lastMoveTimestamp, timerRef) nor the pending timers nor the room table.
C13_RejectedMoveChangesNothing ==
    \A r \in RoomIds, s \in open, o \in Outcomes :
        LET S == onMakeMove(Cur, s, r, o, now)
            active == HasRoom(Cur, r) /\ playing(rooms[r])
            rejected(reason) ==
                /\ S.out = <<[ev |-> "invalid-move", to |-> s, data |-> reason]>>
                /\ S.rooms = rooms /\ S.timers = timers /\ S.table = table
        IN  /\ ~active => rejected("Game is not active.")
            /\ active /\ SeatOf(rooms[r], s) = 0
                  => rejected("You are not in this room.")
            /\ active /\ OutOfTurn(rooms[r], s) => rejected("Not your turn.")

\* a timed playing room with its clock armed for the side to move, whose
\* other player and an outsider are both connected and may send a move
C13_Witness ==
    \E r \in RoomIds, s \in open, x \in open :
        /\ HasRoom(Cur, r) /\ playing(rooms[r])
        /\ rooms[r].timerRef # NoTimer
        /\ SeatOf(rooms[r], x) = 0
        /\ OutOfTurn(rooms[r], s)
        /\ Len(rooms[r].history) = 1

\* the remaining time of side c
TimeOf(room, c) == IF c = "w" THEN room.timeWhite ELSE room.timeBlack

\* socket s is seated in the playing room r and its side is to move
MayMove(s, r) ==
    /\ s \in open /\ TimerAvailable
    /\ HasRoom(Cur, r) /\ playing(rooms[r])
    /\ SeatOf(rooms[r], s) # 0
    /\ ~OutOfTurn(rooms[r], s)

\* the one clock timer the room's timerRef points to, armed at t for side c
\* with that side's remaining time
ClockArmedFor(S, r, c, t) ==
    /\ S.rooms[r].timerRef # NoTimer
    /\ S.rooms[r].lastMoveTimestamp = t
    /\ ClockTimersOf(S.timers, r) =
          {[id |-> S.rooms[r].timerRef, kind |-> "clock", room |-> r,
            due |-> t + TimeOf(S.rooms[r], c), who |-> c]}

\* C14: when the rules engine rejects a move of the side to move in a timed
\* room, the move log, the side to move and the status are unchanged, the
\* mover's remaining time is reduced by the time elapsed since
\* lastMoveTimestamp and by no more (floored at 0), the other side's time is
\* unchanged, and exactly one clock timer is armed, for the same side, with
\* that side's remaining time; the sender gets one invalid-move.
C14_IllegalMoveRearmsClock ==
    \A r \in RoomIds, s \in SocketIds :
        (MayMove(s, r) /\ rooms[r].timeControl # 0)
        => LET room == rooms[r]
               c == room.turn
               S == onMakeMove(Cur, s, r, "illegal", now)
               after == S.rooms[r]
           IN  /\ after.history = room.history
               /\ after.turn = c
               /\ after.status = "playing"
               /\ TimeOf(after, c) = Max(0, TimeOf(room, c) - (now - room.lastMoveTimestamp))
               /\ TimeOf(after, Other(c)) = TimeOf(room, Other(c))
               /\ ClockArmedFor(S, r, c, now)
               /\ S.out = <<[ev |-> "invalid-move", to |-> s, data |-> "Illegal move."]>>

\* a timed playing room with no move played in which white has lost a tick
\* of its time: an illegal move was answered one tick after the start, and
\* the clock is armed again for white with what is left
C14_Witness ==
    \E r \in RoomIds :
        /\ HasRoom(Cur, r) /\ playing(rooms[r])
        /\ rooms[r].timeControl = 2
        /\ rooms[r].history = <<>>
        /\ rooms[r].timeWhite = 1 /\ rooms[r].timeBlack = 2
        /\ ClockArmedFor(Cur, r, "w", rooms[r].lastMoveTimestamp)

\* C15: a legal move of the side to move is appended to the move log and
\* flips the side to move, and one move-made goes out to the room; if the
\* rules engine reports checkmate, stalemate or draw the room is finished
\* with no clock timer armed, otherwise it stays playing and, in a timed
\* room, exactly one clock timer is armed for the new side to move with that
\* side's remaining time (an untimed room has no clock timer).
C15_LegalMoveAdvances ==
    \A r \in RoomIds, s \in SocketIds, o \in Outcomes \ {"illegal"} :
        (MayMove(s, r) /\ Len(rooms[r].history) < MaxMoves)
        => LET room == rooms[r]
               c == room.turn
               next == IF c = "w" THEN "b" ELSE "w"
               S == onMakeMove(Cur, s, r, o, now)
               after == S.rooms[r]
           IN  /\ after.history = Append(room.history, c)
               /\ after.turn = next
               /\ Cardinality(EventsNamed(S, "move-made")) = 1
               /\ \A i \in EventsNamed(S, "move-made") : S.out[i].to = Broadcast
               /\ IF o \in {"checkmate", "stalemate", "draw"}
                  THEN /\ after.status = "finished"
                       /\ after.timerRef = NoTimer
                       /\ ClockTimersOf(S.timers, r) = {}
                  ELSE /\ after.status = "playing"
                       /\ IF room.timeControl # 0
                          THEN ClockArmedFor(S, r, next, now)
                          ELSE /\ after.timerRef = NoTimer
                               /\ ClockTimersOf(S.timers, r) = {}

\* a timed room still playing after two moves, with the clock armed for
\* white, who is to move again
C15_Witness ==
    \E r \in RoomIds :
        /\ HasRoom(Cur, r) /\ playing(rooms[r])
        /\ rooms[r].timeControl # 0
        /\ rooms[r].history = <<"w", "b">>
        /\ rooms[r].turn = "w"
        /\ ClockArmedFor(Cur, r, "w", rooms[r].lastMoveTimestamp)

\* C16: a room never has more than two players nor two players of the same
\* side; a join-room for a waiting room appends the joiner as the second
\* player on the side opposite to the creator's, makes the room playing and,
\* in a timed room, arms the clock for the side to move (an untimed room
\* gets no clock timer); a join-room for a playing or finished room is
\* answered with join-error and changes nothing.
C16_JoinOnlyWhileWaiting ==
    \A r \in RoomIds :
        /\ Len(rooms[r].players) <= 2
        /\ \A i, j \in 1..Len(rooms[r].players) :
              i # j => rooms[r].players[i].color # rooms[r].players[j].color
        /\ \A s \in open :
              (HasRoom(Cur, r) /\ TimerAvailable)
              => LET S == onJoinRoom(Cur, s, sockUser[s], r, now)
                     after == S.rooms[r]
                 IN  IF rooms[r].status = "waiting"
                     THEN /\ Len(rooms[r].players) = 1
                          /\ Len(after.players) = 2
                          /\ after.players[1] = rooms[r].players[1]
                          /\ after.players[2].socketId = s
                          /\ after.players[2].connected
                          /\ after.players[2].color = Other(rooms[r].players[1].color)
                          /\ after.status = "playing"
                          /\ IF rooms[r].timeControl # 0
                             THEN ClockArmedFor(S, r, after.turn, now)
                             ELSE ClockTimersOf(S.timers, r) = {}
                     ELSE /\ S.rooms = rooms /\ S.timers = timers /\ S.table = table
                          /\ EventsNamed(S, "join-error") = {1}
                          /\ S.out[1].to = s

\* a playing room of two players that is still in the table while a third
\* connection, seated nowhere, is at hand to send a join-room
C16_Witness ==
    \E r \in RoomIds, s \in open :
        /\ HasRoom(Cur, r) /\ playing(rooms[r])
        /\ Len(rooms[r].players) = 2
        /\ rooms[r].players[2].color = "b"
        /\ SeatOf(rooms[r], s) = 0
        /\ TimerAvailable

\* C17: when a clock timer of a playing room fires, it is the timer the
\* room's timerRef points to and it was armed for the side that is to move;
\* the room becomes finished with reason timeout, that side's remaining time
\* is 0, the opposite side is credited, and the result is emitted once and
\* recorded once.
C17_ClockTimeoutLosesSideToMove ==
    \A tm \in timers :
        (tm.kind = "clock" /\ tm.due <= now /\ playing(rooms[tm.room]))
        => LET r == tm.room
               S == clockTimeout(Cur, tm)
               F == S.rooms[r]
           IN  /\ tm.id = rooms[r].timerRef
               /\ tm.who = rooms[r].turn
               /\ F.status = "finished"
               /\ TimeOf(F, tm.who) = 0
               /\ TimeOf(F, Other(tm.who)) = TimeOf(rooms[r], Other(tm.who))
               /\ Len(F.recorded) = 1
               /\ F.recorded[1].reason = "timeout"
               /\ F.recorded[1].status = "finished"
               /\ F.recorded[1].result = (IF tm.who = "w" THEN "black" ELSE "white")
               /\ F.endEvents = <<"timeout">>
               /\ tm \notin S.timers

\* a room finished by the timeout of black after white's move: white is
\* credited, black has no time left and white has some
C17_Witness ==
    \E r \in RoomIds :
        /\ rooms[r].status = "finished"
        /\ Len(rooms[r].recorded) = 1
        /\ rooms[r].recorded[1].reason = "timeout"
        /\ rooms[r].recorded[1].result = "white"
        /\ rooms[r].history = <<"w">>
        /\ rooms[r].turn = "b"
        /\ rooms[r].timeBlack = 0 /\ rooms[r].timeWhite > 0

\* the payloads of the signaling messages
Payloads == {"sdp", "candidate"}

\* the transport delivers an event sent to a socket id to the connection of
\* that id, if it is connected
DeliveredTo(S) == {S.out[i].to : i \in 1..Len(S.out)} \cap open

\* C18: a signaling payload from a seated player is delivered, unchanged, to
\* the connection bound to the other seat of the room and to no other, when
\* that seat is connected, and to nobody when the room has no other seat or
\* the other seat is not connected; the room is not touched.
C18_RelayReachesOtherSeat ==
    \A r \in RoomIds, s \in open, payload \in Payloads :
        LET k == SeatOf(rooms[r], s) IN
        (HasRoom(Cur, r) /\ k # 0)
        => LET S == relayToOther(Cur, s, r, "webrtc-offer", payload)
               others == {j \in 1..Len(rooms[r].players) : j # k}
               bound == {rooms[r].players[j].socketId : j \in
                            {j \in others : rooms[r].players[j].connected}}
           IN  /\ DeliveredTo(S) = bound
               /\ \A i \in 1..Len(S.out) :
                     S.out[i].ev = "webrtc-offer" /\ S.out[i].data = payload
               /\ Len(S.out) <= 1
               /\ S.rooms = rooms /\ S.timers = timers /\ S.table = table

\* C18 for rooms whose seats are bound to different connections
C18_DistinctConnections ==
    \A r \in RoomIds, s \in open, payload \in Payloads :
        LET k == SeatOf(rooms[r], s) IN
        (/\ HasRoom(Cur, r) /\ k # 0
         /\ \A j \in 1..Len(rooms[r].players) :
               j # k => rooms[r].players[j].socketId # s)
        => LET S == relayToOther(Cur, s, r, "webrtc-offer", payload)
               others == {j \in 1..Len(rooms[r].players) : j # k}
               bound == {rooms[r].players[j].socketId : j \in
                            {j \in others : rooms[r].players[j].connected}}
           IN  /\ DeliveredTo(S) = bound
               /\ Len(S.out) <= 1

\* C19: every create-room call ends: it leaves generateRoomId() with a
\* room allocated, or (no unused id being found) with an error.
C19_CreateRoomTerminates == (creating # NotCreating) ~> (creating = NotCreating)

\* C19, the allocation itself: a create-room call that ends has added one
\* waiting room under an id that no live room had
C19_AllocatedIdIsFresh ==
    [][(creating # NotCreating /\ creating' = NotCreating)
       => \E id \in IdSpace :
             /\ ~HasRoom(Cur, id)
             /\ table' = Append(table, id)
             /\ rooms'[id].status = "waiting"
             /\ Len(rooms'[id].players) = 1]_vars

\* C20: a leave-room for a waiting room removes the room from the room
\* table; for a playing or finished room it changes nothing (status,
\* players, clock, pending timers and table entry).
C20_LeaveOnlyWhileWaiting ==
    \A r \in RoomIds, s \in open :
        HasRoom(Cur, r)
        => LET S == onLeaveRoom(Cur, s, r)
           IN  IF rooms[r].status = "waiting"
               THEN /\ ~HasRoom(S, r)
                    /\ S.timers = timers
               ELSE S = Cur

\* a waiting room that is no longer in the table although its creator is
\* still connected: it was left, not dropped by a disconnect
C20_Witness ==
    \E r \in RoomIds :
        /\ rooms[r].status = "waiting"
        /\ ~HasRoom(Cur, r)
        /\ rooms[r].players[1].connected
        /\ rooms[r].players[1].socketId \in open

\* C21: a room never has more than one pending clock timer, and the pending
\* clock timer of a playing room is the one its timerRef points to, whatever
\* the number of re-arms (join, legal move, illegal move, reconnection).
C21_OneClockTimerPerRoom ==
    \A r \in RoomIds :
        /\ Cardinality(ClockTimersOf(timers, r)) <= 1
        /\ playing(rooms[r]) =>
              \A x \in ClockTimersOf(timers, r) : x.id = rooms[r].timerRef

\* a timed room whose clock has been armed at the join, by two moves and at
\* the last instant again, with one clock timer pending
C21_Witness ==
    \E r \in RoomIds :
        /\ playing(rooms[r])
        /\ Len(rooms[r].history) = 2
        /\ rooms[r].lastMoveTimestamp = MaxTime
        /\ Cardinality(ClockTimersOf(timers, r)) = 1
        /\ Cardinality(timers) = 1

\* C22: a room never has more than one pending reconnection deadline.
C22_OneDeadlinePerRoom ==
    \A r \in RoomIds : Cardinality(DeadlinesOf(timers, r)) <= 1

\* C23: in a finished room neither a reconnection deadline nor a clock timer
\* is pending.
C23_FinishedHasNoTimers ==
    \A r \in RoomIds :
        rooms[r].status = "finished"
        => DeadlinesOf(timers, r) = {} /\ ClockTimersOf(timers, r) = {}

\* C24: while a room is waiting or finished no clock timer of it is pending.
C24_NoClockUnlessPlaying ==
    \A r \in RoomIds :
        rooms[r].status \in {"waiting", "finished"} => ClockTimersOf(timers, r) = {}

\* C25: every move attempt of the side to move in a timed room, whatever the
\* rules engine answers, leaves the mover with max(0, remaining - (now -
\* lastMoveTimestamp)) and the opponent's remaining time as it was; both
\* remaining times are >= 0 in every state, and no step lowers both of them.
C25_DeductOnMove ==
    /\ [](\A r \in RoomIds :
            /\ rooms[r].timeWhite >= 0 /\ rooms[r].timeBlack >= 0
            /\ \A s \in SocketIds, o \in Outcomes :
                  (/\ MayMove(s, r) /\ rooms[r].timeControl # 0
                   /\ (o # "illegal" => Len(rooms[r].history) < MaxMoves))
                  => LET room == rooms[r]
                         c == room.turn
                         opp == IF c = "w" THEN "b" ELSE "w"
                         left == TimeOf(room, c) - (now - room.lastMoveTimestamp)
                         after == onMakeMove(Cur, s, r, o, now).rooms[r]
                     IN  /\ TimeOf(after, c) = (IF left < 0 THEN 0 ELSE left)
                         /\ TimeOf(after, opp) = TimeOf(room, opp))
    /\ [][\A r \in RoomIds :
             ~(/\ rooms'[r].timeWhite < rooms[r].timeWhite
               /\ rooms'[r].timeBlack < rooms[r].timeBlack)]_vars

\* a timed playing room after one move of each side, each of which has been
\* charged one tick
C25_Witness ==
    \E r \in RoomIds :
        /\ HasRoom(Cur, r) /\ playing(rooms[r])
        /\ rooms[r].timeControl = 2
        /\ rooms[r].history = <<"w", "b">>
        /\ rooms[r].timeWhite = 1 /\ rooms[r].timeBlack = 1

\* C26: leave-room, draw-response, draw-offer, resign and make-move from a
\* connection that is not seated in the room they name change neither the
\* room's status nor its entry in the room table.
C26_OutsiderChangesNothing ==
    \A r \in RoomIds, s \in open :
        (HasRoom(Cur, r) /\ SeatOf(rooms[r], s) = 0)
        => \A S \in {onLeaveRoom(Cur, s, r), onDrawOffer(Cur, s, r),
                      onResign(Cur, s, r)}
                     \cup {onDrawResponse(Cur, s, r, a) : a \in BOOLEAN}
                     \cup {onMakeMove(Cur, s, r, o, now) : o \in Outcomes} :
              /\ S.rooms[r].status = rooms[r].status
              /\ HasRoom(S, r)

\* C27: a reconnection that sets lastMoveTimestamp anew first charges the
\* time elapsed since lastMoveTimestamp to the side to move.  It is stated
\* for a reconnection in the very instant of the disconnect (the deadline
\* cancelled was armed at this instant), when none of the elapsed time is
\* time the clock was stopped for.
C27_ReconnectChargesElapsed ==
    \A r \in RoomIds, u \in Users :
        (/\ nextSocket \in SocketIds /\ TimerAvailable
         /\ r = reconnectRoom(Cur, u)
         /\ rooms[r].timeControl # 0
         /\ \E x \in DeadlinesOf(timers, r) :
               /\ x.id = rooms[r].reconnectTimers[u]
               /\ x.due = now + ReconnectGrace)
        => LET room == rooms[r]
               c == room.turn
               left == TimeOf(room, c) - (now - room.lastMoveTimestamp)
               after == onConnection(Cur, nextSocket, u, now).rooms[r]
           IN  after.lastMoveTimestamp # room.lastMoveTimestamp
               => TimeOf(after, c) = (IF left < 0 THEN 0 ELSE left)

\* C28: after the disconnect of a connection has been handled, no room of the
\* room table has a player bound to that connection with connected = true.
C28_DisconnectUnbindsEverywhere ==
    \A s \in open :
        LET S == onDisconnect(Cur, s, now) IN
        creating = NotCreating =>
        \A r \in Range(S.table) :
            \A k \in 1..Len(S.rooms[r].players) :
                ~(S.rooms[r].players[k].socketId = s /\ S.rooms[r].players[k].connected)

\* C29: a playing room of the table that has a time limit and both of its
\* players connected has exactly one clock timer pending, the one its
\* timerRef points to, armed for the side to move.
C29_ClockRunsWhenBothConnected ==
    \A r \in RoomIds :
        (/\ HasRoom(Cur, r) /\ playing(rooms[r]) /\ rooms[r].timeControl # 0
         /\ \A k \in 1..Len(rooms[r].players) : rooms[r].players[k].connected)
        => /\ Cardinality(ClockTimersOf(timers, r)) = 1
           /\ \A x \in ClockTimersOf(timers, r) :
                 x.id = rooms[r].timerRef /\ x.who = rooms[r].turn

\* C29 for rooms whose two seats belong to different users (or to guests)
C29_DistinctIdentities ==
    \A r \in RoomIds :
        (/\ HasRoom(Cur, r) /\ playing(rooms[r]) /\ rooms[r].timeControl # 0
         /\ \A k \in 1..Len(rooms[r].players) : rooms[r].players[k].connected
         /\ \A u \in Users : Cardinality({k \in 1..Len(rooms[r].players) :
                                             rooms[r].players[k].userId = u}) <= 1)
        => /\ Cardinality(ClockTimersOf(timers, r)) = 1
           /\ \A x \in ClockTimersOf(timers, r) :
                 x.id = rooms[r].timerRef /\ x.who = rooms[r].turn

\* C30: the two seats of a room are bound to two different connections, and
\* a join-room from a connection that is seated in the room changes nothing.
C30_SeatsOnDifferentConnections ==
    \A r \in RoomIds :
        /\ \A i, j \in 1..Len(rooms[r].players) :
              i # j => rooms[r].players[i].socketId # rooms[r].players[j].socketId
        /\ \A s \in open :
              (HasRoom(Cur, r) /\ TimerAvailable /\ SeatOf(rooms[r], s) # 0)
              => onJoinRoom(Cur, s, sockUser[s], r, now).rooms[r] = rooms[r]

====
